---- MODULE Spec2Model ----
(***************************************************************************)
(* Boundary-tag chunk list of silica-chunks (src/src/lib.rs).              *)
(*                                                                         *)
(* The heap's backing region is modelled byte by byte.  A memory is a      *)
(* function from byte offsets (0 is the first byte of the region) to byte  *)
(* values; only the non-zero bytes are stored, every other byte of the     *)
(* region reads 0.  A chunk reference (&Chunk) is the byte offset of its   *)
(* header.  Header fields are little-endian u16 values.                    *)
(***************************************************************************)
EXTENDS Integers, Sequences, FiniteSets, TLC

\* ------------------------------------------------------------------ bounds
\* Number of operations applied after Heap::new.
MaxOps == 4
\* Stand-in for 2^64 (usize wrap-around in a build without overflow checks).
\* Only its being larger than every size the model compares it with matters.
USIZE_MOD == 1073741824

\* Heap::new is tried on every region of 0..MaxSmallLen bytes.
MaxSmallLen == 40

\* ------------------------------------------------------- program constants
MIN_PAYLOAD_LEN == 1
MAX_CHUNK_SIZE == 32767
FLAG_ALLOCATED == 32768
FLAG_LAST == 32768
\* size_of::<usize>() on a 64-bit target, size_of::<Chunk>() (two u16).
size_of_usize == 8
size_of_Chunk == 4

\* Option::None for Option<&mut Chunk>.
None == 0 - 1

\* Faulty variant of Min: the first argument, whatever the second.
Min_first(a, b) == a

Min(a, b) == IF a < b THEN a ELSE b
Max(a, b) == IF a < b THEN b ELSE a

\* ------------------------------------------------------------ inputs
\* Three bytes left in the fourth word of a region before it becomes a heap.
Leftover == [a \in {24, 25, 26} |-> CASE a = 24 -> 32 [] a = 25 -> 25 [] OTHER -> 255]
\* The regions handed to Heap::new: the length in bytes, and the bytes held
\* (<<>> is a region of zeroes).  6 units and 3 spare bytes; 12 units; and
\* max_size + 2 units, which Heap::new cuts in two chunks.
Regions == { [len |-> 6 * size_of_usize + 3, bytes |-> <<>>],
             [len |-> 12 * size_of_usize, bytes |-> Leftover],
             [len |-> (MAX_CHUNK_SIZE + 2) * size_of_usize, bytes |-> Leftover] }
\* Byte values a client writes into a payload.
PayloadBytes == {32}
\* Byte offsets (from to_ptr) a client writes at.
PayloadOffsets == {0, 9}
\* Byte values read from memory that lies outside the region.
OutsideBytes == {0, 255}

\* Lengths in bytes of the regions Heap::new is tried on: the small ones, and
\* those around one and two chunks of MAX_CHUNK_SIZE units, with and without
\* spare bytes after the last unit.
NewLens ==
    (0 .. MaxSmallLen)
    \cup {u * size_of_usize + spare :
            u \in {MAX_CHUNK_SIZE - 1, MAX_CHUNK_SIZE, MAX_CHUNK_SIZE + 1,
                   MAX_CHUNK_SIZE + 2, 2 * MAX_CHUNK_SIZE, 2 * MAX_CHUNK_SIZE + 1,
                   2 * MAX_CHUNK_SIZE + 2},
            spare \in {0, size_of_usize - 1}}
\* What a region holds before Heap::new: the value of every byte at the places
\* where Heap::new may put a header (0 is a region of zeroes).
GarbageBytes == {0, 128, 255}
Dirty(l, g) ==
    IF g = 0 THEN <<>>
    ELSE [a \in {k * MAX_CHUNK_SIZE * size_of_usize + j : k \in 0..2, j \in 0..(size_of_Chunk - 1)}
               \cap (0 .. (l - 1)) |-> g]

\* Values of the two u16 fields of a header the setters are tried on: no
\* bit, small and largest sizes, the flag alone and with a size, every bit.
HeaderFields ==
    {0, 2, 5, MAX_CHUNK_SIZE, FLAG_LAST, FLAG_LAST + 2, FLAG_LAST + MAX_CHUNK_SIZE}
\* Arguments set_size and set_prev_size are called with: around min_size,
\* around max_size, and a size whose low 16 bits alone would be accepted.
SetterArgs ==
    {0, MIN_PAYLOAD_LEN, MIN_PAYLOAD_LEN + 1, MIN_PAYLOAD_LEN + 2, MAX_CHUNK_SIZE - 1,
     MAX_CHUNK_SIZE, MAX_CHUNK_SIZE + 1, 2 * FLAG_LAST + 2}

VARIABLES
    mem,              \* Heap.heap: the region's bytes
    len,              \* Heap.heap.len()
    chunk_count,      \* Heap.chunk_count
    pc,               \* "run", "panicked" (panic!), "undefined" (stopped by UB),
                      \* "diverged" (in a loop that never ends)
    ub,               \* an access outside the region has happened
    op,               \* the last operation, its arguments, result and pre-state
    steps             \* number of operations applied so far that can write

vars == <<mem, len, chunk_count, pc, ub, op, steps>>

\* ------------------------------------------------------------ raw memory
Rd(m, a) == IF a \in DOMAIN m THEN m[a] ELSE 0

Wr(m, a, v) ==
    [x \in (IF v = 0 THEN DOMAIN m \ {a} ELSE DOMAIN m \cup {a}) |->
        IF x = a THEN v ELSE m[x]]

RdU16(m, a) == Rd(m, a) + 256 * Rd(m, a + 1)

WrU16(m, a, v) == Wr(Wr(m, a, v % 256), a + 1, v \div 256)

\* [a, a + n) lies inside a region of l bytes.
InRegion(l, a, n) == 0 <= a /\ a + n <= l

\* ------------------------------------------------------------ Chunk
alignment == size_of_usize

to_padded_csize(sz) == (sz + alignment - 1) \div alignment

hdr_csize == to_padded_csize(size_of_Chunk)

to_csize(sz) == hdr_csize + to_padded_csize(sz)

min_size == hdr_csize + MIN_PAYLOAD_LEN

max_size == MAX_CHUNK_SIZE

\* The two fields of the header at c: prev_size first, then size.
prev_size_field(m, c) == RdU16(m, c)
size_field(m, c) == RdU16(m, c + 2)

size(m, c) == size_field(m, c) % FLAG_ALLOCATED

\* Faulty variant of set_size_panics: min_size is refused too.
set_size_panics_strict(n) == n <= min_size \/ max_size < n

set_size_panics(n) == n < min_size \/ max_size < n

\* Faulty variant of set_size: the new size is stored over the whole field, which
\* drops the ALLOCATED flag.
set_size_clobber(m, c, n) == WrU16(m, c + 2, n % 65536)

set_size(m, c, n) ==
    WrU16(m, c + 2,
          ((n % 65536) % FLAG_ALLOCATED)
          + (size_field(m, c) \div FLAG_ALLOCATED) * FLAG_ALLOCATED)

prev_size(m, c) == prev_size_field(m, c) % FLAG_LAST

\* Faulty variant of set_prev_size_panics: 0 is refused too.
set_prev_size_panics_nonzero(n) == n < min_size \/ max_size < n

set_prev_size_panics(n) == n # 0 /\ (n < min_size \/ max_size < n)

\* Faulty variant of set_prev_size: nothing is stored.
set_prev_size_dropped(m, c, n) == m

set_prev_size(m, c, n) ==
    WrU16(m, c,
          ((n % 65536) % FLAG_LAST)
          + (prev_size_field(m, c) \div FLAG_LAST) * FLAG_LAST)

is_allocated(m, c) == (size_field(m, c) \div FLAG_ALLOCATED) * FLAG_ALLOCATED = FLAG_ALLOCATED

\* Faulty variant of set_is_allocated: the flag is left as it is.
set_is_allocated_ignored(m, c, b) == m

set_is_allocated(m, c, b) ==
    WrU16(m, c + 2,
          IF b THEN (size_field(m, c) % FLAG_ALLOCATED) + FLAG_ALLOCATED
               ELSE size_field(m, c) % FLAG_ALLOCATED)

is_last(m, c) == (prev_size_field(m, c) \div FLAG_LAST) * FLAG_LAST = FLAG_LAST

\* Faulty variant of set_is_last: the flag is stored over the whole field.
set_is_last_clobber(m, c, b) == WrU16(m, c, IF b THEN FLAG_LAST ELSE 0)

set_is_last(m, c, b) ==
    WrU16(m, c,
          IF b THEN (prev_size_field(m, c) % FLAG_LAST) + FLAG_LAST
               ELSE prev_size_field(m, c) % FLAG_LAST)

previous(m, c) ==
    IF prev_size(m, c) = 0 THEN None
    ELSE c - prev_size(m, c) * size_of_usize

next(m, c) ==
    IF is_last(m, c) THEN None
    ELSE c + size(m, c) * size_of_usize

\* ------------------------------------------------------------ arithmetic
\* usize subtraction in a build without overflow checks.
wrapping_sub(a, b) == IF a >= b THEN a - b ELSE USIZE_MOD + (a - b)

\* ------------------------------------------------------------ Heap
\* What an operation leaves behind: the region, chunk_count, the value it
\* returns (a chunk or None), how it ended ("ok", "panic", or "undefined" when
\* it touched a header outside the region), and whether a copy left the region.
Res(m, cc, ret, outcome, oob) ==
    [mem |-> m, chunk_count |-> cc, ret |-> ret, outcome |-> outcome, oob |-> oob]

first_chunk == 0

to_ptr(c) == c + hdr_csize * size_of_usize

from_ptr(p) == p - hdr_csize * size_of_usize

\* The loop of Heap::new, entered with the chunk c about to be written.
RECURSIVE new_loop(_, _, _, _, _)
new_loop(m, c, prev, units, cc) ==
    LET sz == Min(units, max_size) IN
    IF set_prev_size_panics(prev) THEN Res(m, cc, None, "panic", FALSE)
    ELSE IF set_size_panics(sz)
    THEN Res(set_prev_size(m, c, prev), cc, None, "panic", FALSE)
    ELSE
      LET m1 == set_is_last(
                  set_is_allocated(
                    set_size(set_prev_size(m, c, prev), c, sz), c, FALSE),
                  c, FALSE)
          left == units - sz
      IN  IF left < min_size
          THEN Res(set_is_last(m1, c, TRUE), cc + 1, None, "ok", FALSE)
          ELSE new_loop(m1, next(m1, c), sz, left, cc + 1)

\* Heap::new on a region of l bytes holding the bytes m.
Heap_new(m, l) ==
    LET alignment_unit_count == l \div alignment IN
    IF alignment_unit_count < min_size
    THEN Res(m, 0, None, "panic", FALSE)
    ELSE new_loop(m, first_chunk, 0, alignment_unit_count, 0)

\* memmove of nb bytes from src to dst in a region of l bytes: every
\* destination byte gets the value its source byte had before the call.  Bytes
\* read outside the region have the value fill; bytes written outside the
\* region are not part of the region's state.
memmove(m, l, src, dst, nb, fill) ==
    LET delta == src - dst
        lo == Max(dst, 0)
        hi == Min(l, dst + nb)
        kept == {a \in DOMAIN m : ~(dst <= a /\ a < dst + nb)}
        moved == {a - delta : a \in {x \in DOMAIN m :
                      src <= x /\ x < src + nb /\ lo <= x - delta /\ x - delta < hi}}
        filled == IF fill = 0 THEN {}
                  ELSE (Max(lo, l - delta) .. (hi - 1))
                       \cup (lo .. (Min(hi, 0 - delta) - 1))
    IN  [a \in kept \cup moved \cup filled |->
            IF dst <= a /\ a < dst + nb
            THEN (IF InRegion(l, a + delta, 1) THEN m[a + delta] ELSE fill)
            ELSE m[a]]

\* Faulty variant of ptr_copy_usize: source and destination exchanged.
ptr_copy_usize_swapped(m, l, src, dst, count, fill) ==
    memmove(m, l, dst, src, count * size_of_usize, fill)

\* ptr::copy::<usize>(src, dst, count): count elements of size_of::<usize>()
\* bytes each, with memmove semantics.
ptr_copy_usize(m, l, src, dst, count, fill) ==
    memmove(m, l, src, dst, count * size_of_usize, fill)

\* Faulty variant of would_overflow: the comparison with max_size is left out.
would_overflow_unchecked(new_size) == FALSE

\* new_size > Chunk::max_size(): "would overflow, do nothing".
would_overflow(new_size) == new_size > max_size

\* Faulty variant of both_allocated: the test is left out.
both_allocated_unchecked(m, c0, c1) == FALSE

\* c0.is_allocated() && c1.is_allocated(): "Chunks must not be both allocated".
both_allocated(m, c0, c1) == is_allocated(m, c0) /\ is_allocated(m, c1)

absorb_next(m, l, cc, oc, c0, fill) ==
    LET c1 == next(m, c0) IN
    IF c1 = None THEN Res(m, cc, None, "ok", FALSE)
    ELSE IF ~InRegion(l, c1, size_of_Chunk) THEN Res(m, cc, None, "undefined", FALSE)
    ELSE IF both_allocated(m, c0, c1)
    THEN Res(m, cc, None, "panic", FALSE)
    ELSE
      LET new_size == size(m, c0) + size(m, c1) IN
      IF would_overflow(new_size) THEN Res(m, cc, None, "ok", FALSE)
      ELSE IF cc < 1 /\ oc THEN Res(m, cc, None, "panic", FALSE)
      ELSE
        LET cc1 == wrapping_sub(cc, 1) IN
        IF set_size_panics(new_size) THEN Res(m, cc1, None, "panic", FALSE)
        ELSE
          LET m1 == set_size(m, c0, new_size)
              m2 == set_is_last(m1, c0, is_last(m1, c1))
              new_is_allocated == is_allocated(m2, c0) \/ is_allocated(m2, c1)
              m3 == set_is_allocated(m2, c0, new_is_allocated)
              c == next(m3, c0)
          IN
          IF c # None /\ ~InRegion(l, c, size_of_Chunk)
          THEN Res(m3, cc1, None, "undefined", FALSE)
          ELSE
            LET m4 == IF c = None THEN m3 ELSE set_prev_size(m3, c, size(m3, c0)) IN
            IF ~is_allocated(m4, c1) THEN Res(m4, cc1, None, "ok", FALSE)
            ELSE IF size(m4, c1) < hdr_csize
            THEN Res(m4, cc1, None, IF oc THEN "panic" ELSE "undefined", FALSE)
            ELSE
              LET count == (size(m4, c1) - hdr_csize) * alignment
                  nb == count * size_of_usize
              IN  Res(ptr_copy_usize(m4, l, to_ptr(c1), to_ptr(c0), count, fill), cc1, None, "ok",
                      nb > 0 /\ (~InRegion(l, to_ptr(c1), nb) \/ ~InRegion(l, to_ptr(c0), nb)))

\* Faulty variant of count_split: the new chunk is not counted.
count_split_forgotten(cc) == cc

\* self.chunk_count += 1
count_split(cc) == cc + 1

split(m, l, cc, oc, c0, sz) ==
    IF size(m, c0) < sz /\ oc THEN Res(m, cc, None, "panic", FALSE)
    ELSE
      LET new_size == wrapping_sub(size(m, c0), sz) IN
      IF new_size < min_size \/ sz < min_size THEN Res(m, cc, None, "ok", FALSE)
      ELSE
        LET cc1 == count_split(cc)
            c2 == next(m, c0)
        IN
        IF set_size_panics(sz) THEN Res(m, cc1, None, "panic", FALSE)
        ELSE
          LET m1 == set_is_last(set_size(m, c0, sz), c0, FALSE)
              c1 == next(m1, c0)
          IN
          IF set_size_panics(new_size) THEN Res(m1, cc1, None, "panic", FALSE)
          ELSE IF ~InRegion(l, c1, size_of_Chunk) THEN Res(m1, cc1, None, "undefined", FALSE)
          ELSE
            LET m2 == set_is_allocated(
                        set_prev_size(set_size(m1, c1, new_size), c1, sz), c1, FALSE)
            IN
            IF c2 = None THEN Res(set_is_last(m2, c1, TRUE), cc1, c1, "ok", FALSE)
            ELSE IF ~InRegion(l, c2, size_of_Chunk) THEN Res(m2, cc1, None, "undefined", FALSE)
            ELSE Res(set_is_last(set_prev_size(m2, c2, new_size), c1, FALSE),
                     cc1, c1, "ok", FALSE)

\* Faulty variant of find_skips: an allocated chunk that is large enough is taken.
find_skips_size_only(m, c, sz) == size(m, c) < sz

\* c.size() < size || c.is_allocated(): find passes over chunk c.
find_skips(m, c, sz) == size(m, c) < sz \/ is_allocated(m, c)

\* The loop of Heap::find at chunk c, n chunks examined before it.  It ends
\* "ok" with the chunk found or None; "loop" when next() of a chunk it passes
\* over is that chunk again (size 0 without LAST): the loop never ends;
\* "undefined" when it reads a header outside the region.
RECURSIVE find_loop(_, _, _, _, _)
find_loop(m, l, c, sz, n) ==
    IF ~InRegion(l, c, size_of_Chunk)
    THEN [ret |-> None, outcome |-> "undefined", examined |-> n]
    ELSE IF ~find_skips(m, c, sz) THEN [ret |-> c, outcome |-> "ok", examined |-> n + 1]
    ELSE IF next(m, c) = None THEN [ret |-> None, outcome |-> "ok", examined |-> n + 1]
    ELSE IF next(m, c) = c THEN [ret |-> None, outcome |-> "loop", examined |-> n + 1]
    ELSE find_loop(m, l, next(m, c), sz, n + 1)

find(m, l, sz) == find_loop(m, l, first_chunk, sz, 0)

\* ------------------------------------------------------------ the list
\* Walking next() from chunk c: the chunks visited, and how the walk ends:
\* "last" at a chunk with LAST set, "loop" at a chunk of size 0 that is not
\* LAST (next() returns the chunk itself, for ever), "outside" when next()
\* leaves the region.
RECURSIVE walk(_, _, _, _)
walk(m, l, c, acc) ==
    IF ~InRegion(l, c, size_of_Chunk) THEN [chunks |-> acc, end |-> "outside"]
    ELSE IF is_last(m, c) THEN [chunks |-> Append(acc, c), end |-> "last"]
    ELSE IF size(m, c) = 0 THEN [chunks |-> Append(acc, c), end |-> "loop"]
    ELSE walk(m, l, next(m, c), Append(acc, c))

List(m, l) == walk(m, l, first_chunk, <<>>)

Chunks == LET w == List(mem, len).chunks IN {w[i] : i \in 1..Len(w)}

\* ------------------------------------------------------------ operations
\* Sizes a caller asks split for on a chunk of size cs: around min_size,
\* twice min_size, around cs, and one above cs.
SplitSizes(cs) ==
    {min_size - 1, min_size, min_size + 1, 2 * min_size, cs - min_size, cs - 1, cs + 1}

NoPre == [valid |-> FALSE, mem |-> <<>>, chunk_count |-> 0]

\* The record kept of an operation: its name and arguments, what it returned
\* and how it ended, the state it started from (pre), and, for an absorb_next
\* that directly follows a successful split of the same chunk, the state that
\* split started from (pre2).
Record(name, c0, arg, val, r, pre2) ==
    [name |-> name, c0 |-> c0, arg |-> arg, val |-> val,
     ret |-> r.ret, outcome |-> r.outcome, oob |-> r.oob,
     pre |-> [mem |-> mem, chunk_count |-> chunk_count],
     pre2 |-> pre2]

\* The state an operation with result r leaves.  A panic ends the run.  So
\* does an access outside the region: what the program does from there on is
\* not defined, and the model follows it no further; mem then holds what a
\* build that carries the access out leaves in the region.
Finish(name, c0, arg, val, r, pre2) ==
    /\ mem' = r.mem
    /\ chunk_count' = r.chunk_count
    /\ pc' = (CASE r.outcome = "panic" -> "panicked"
               [] r.outcome = "undefined" \/ r.oob -> "undefined"
               [] OTHER -> "run")
    /\ ub' = (ub \/ r.oob \/ r.outcome = "undefined")
    /\ op' = Record(name, c0, arg, val, r, pre2)
    /\ steps' = steps + 1
    /\ UNCHANGED len

Init ==
    \E region \in Regions :
        LET l == region.len
            m0 == region.bytes
            r == Heap_new(m0, l)
        IN
        /\ mem = r.mem
        /\ len = l
        /\ chunk_count = r.chunk_count
        /\ pc = (IF r.outcome = "panic" THEN "panicked" ELSE "run")
        /\ ub = FALSE
        /\ op = [name |-> "new", c0 |-> None, arg |-> l, val |-> 0,
                 ret |-> None, outcome |-> r.outcome, oob |-> FALSE,
                 pre |-> [mem |-> m0, chunk_count |-> 0],
                 pre2 |-> NoPre]
        /\ steps = 0

\* A region before Heap::new is called on it.
InitNew ==
    \E l \in NewLens : \E g \in GarbageBytes :
        /\ mem = Dirty(l, g)
        /\ len = l
        /\ chunk_count = 0
        /\ pc = "start"
        /\ ub = FALSE
        /\ op = [name |-> "none", c0 |-> None, arg |-> l, val |-> 0,
                 ret |-> None, outcome |-> "ok", oob |-> FALSE,
                 pre |-> [mem |-> <<>>, chunk_count |-> 0],
                 pre2 |-> NoPre]
        /\ steps = 0

\* Heap::new(region).
New ==
    /\ pc = "start"
    /\ LET r == Heap_new(mem, len) IN
       /\ mem' = r.mem
       /\ chunk_count' = r.chunk_count
       /\ pc' = (IF r.outcome = "panic" THEN "panicked" ELSE "run")
       /\ op' = [name |-> "new", c0 |-> None, arg |-> len, val |-> 0,
                  ret |-> None, outcome |-> r.outcome, oob |-> FALSE,
                  pre |-> [mem |-> mem, chunk_count |-> 0],
                  pre2 |-> NoPre]
       /\ UNCHANGED <<len, ub, steps>>

SpecNew == InitNew /\ [][New]_vars

\* A Chunk on its own, with any header.
InitChunk ==
    \E p \in HeaderFields : \E q \in HeaderFields :
        /\ mem = WrU16(WrU16(<<>>, first_chunk, p), first_chunk + 2, q)
        /\ len = size_of_Chunk
        /\ chunk_count = 0
        /\ pc = "run"
        /\ ub = FALSE
        /\ op = [name |-> "none", c0 |-> None, arg |-> 0, val |-> 0,
                 ret |-> None, outcome |-> "ok", oob |-> FALSE,
                 pre |-> [mem |-> <<>>, chunk_count |-> 0],
                 pre2 |-> NoPre]
        /\ steps = 0

ChunkSetSize ==
    /\ pc = "run" /\ steps < MaxOps
    /\ \E n \in SetterArgs :
          Finish("set_size", first_chunk, n, 0,
                 IF set_size_panics(n) THEN Res(mem, chunk_count, None, "panic", FALSE)
                 ELSE Res(set_size(mem, first_chunk, n), chunk_count, None, "ok", FALSE),
                 NoPre)

ChunkSetPrevSize ==
    /\ pc = "run" /\ steps < MaxOps
    /\ \E n \in SetterArgs :
          Finish("set_prev_size", first_chunk, n, 0,
                 IF set_prev_size_panics(n) THEN Res(mem, chunk_count, None, "panic", FALSE)
                 ELSE Res(set_prev_size(mem, first_chunk, n), chunk_count, None, "ok", FALSE),
                 NoPre)

ChunkSetIsAllocated ==
    /\ pc = "run" /\ steps < MaxOps
    /\ \E b \in BOOLEAN :
          Finish("set_is_allocated", first_chunk, IF b THEN 1 ELSE 0, 0,
                 Res(set_is_allocated(mem, first_chunk, b), chunk_count, None, "ok", FALSE),
                 NoPre)

ChunkSetIsLast ==
    /\ pc = "run" /\ steps < MaxOps
    /\ \E b \in BOOLEAN :
          Finish("set_is_last", first_chunk, IF b THEN 1 ELSE 0, 0,
                 Res(set_is_last(mem, first_chunk, b), chunk_count, None, "ok", FALSE),
                 NoPre)

NextChunk == ChunkSetSize \/ ChunkSetPrevSize \/ ChunkSetIsAllocated \/ ChunkSetIsLast

SpecChunk == InitChunk /\ [][NextChunk]_vars

\* oc: whether the build checks arithmetic overflow (a debug build panics on
\* it, a release build wraps).  It only matters in a call that overflows.
Split ==
    /\ pc = "run" /\ steps < MaxOps
    /\ \E c0 \in Chunks : \E sz \in SplitSizes(size(mem, c0)) : \E oc \in BOOLEAN :
          /\ sz >= 0
          /\ Finish("split", c0, sz, 0,
                    split(mem, len, chunk_count, oc, c0, sz), NoPre)

AbsorbNext ==
    /\ pc = "run" /\ steps < MaxOps
    /\ \E c0 \in Chunks : \E fill \in OutsideBytes : \E oc \in BOOLEAN :
          Finish("absorb_next", c0, 0, fill,
                 absorb_next(mem, len, chunk_count, oc, c0, fill),
                 IF op.name = "split" /\ op.outcome = "ok" /\ op.ret # None /\ op.c0 = c0
                 THEN [valid |-> TRUE, mem |-> op.pre.mem,
                       chunk_count |-> op.pre.chunk_count]
                 ELSE NoPre)

SetIsAllocated ==
    /\ pc = "run" /\ steps < MaxOps
    /\ \E c \in Chunks : \E b \in BOOLEAN :
          /\ b # is_allocated(mem, c)
          /\ Finish("set_is_allocated", c, IF b THEN 1 ELSE 0, 0,
                 Res(set_is_allocated(mem, c, b), chunk_count, None, "ok", FALSE),
                 NoPre)

\* A client writes one byte into the payload of a chunk it has allocated.
WritePayload ==
    /\ pc = "run" /\ steps < MaxOps
    /\ \E c \in Chunks : \E off \in PayloadOffsets : \E v \in PayloadBytes :
          /\ is_allocated(mem, c)
          /\ off < (size(mem, c) - hdr_csize) * alignment
          /\ InRegion(len, to_ptr(c) + off, 1)
          /\ Finish("write", c, off, v,
                    Res(Wr(mem, to_ptr(c) + off, v), chunk_count, None, "ok", FALSE),
                    NoPre)

\* Sizes a caller asks find for: one unit more than the smallest chunk, and
\* five units.
FindSizes == {min_size + 1, 2 * min_size + 1}

\* Heap::find reads only; it is not counted in steps.  A find that never
\* returns, or that reads outside the region, ends the run.
Find ==
    /\ pc = "run"
    /\ \E sz \in FindSizes :
          LET f == find(mem, len, sz) IN
          /\ pc' = (CASE f.outcome = "loop" -> "diverged"
                     [] f.outcome = "undefined" -> "undefined"
                     [] OTHER -> "run")
          /\ ub' = (ub \/ f.outcome = "undefined")
          /\ op' = Record("find", None, sz, f.examined,
                          Res(mem, chunk_count, f.ret, f.outcome, FALSE), NoPre)
          /\ UNCHANGED <<mem, len, chunk_count, steps>>

Next == Split \/ AbsorbNext \/ SetIsAllocated \/ WritePayload

Spec == Init /\ [][Next]_vars

\* Only the two structural operations: no chunk is ever marked allocated.
NextStructural == Split \/ AbsorbNext

SpecStructural == Init /\ [][NextStructural]_vars

\* The four operations that change the heap, and find.
NextFind == Split \/ AbsorbNext \/ SetIsAllocated \/ WritePayload \/ Find

SpecFind == Init /\ [][NextFind]_vars

\* ------------------------------------------------------------ the claims
Seq2Set(w) == {w[i] : i \in 1..Len(w)}

RECURSIVE SumSizes(_, _, _)
SumSizes(m, w, i) == IF i > Len(w) THEN 0 ELSE size(m, w[i]) + SumSizes(m, w, i + 1)

\* The sum of size() over the chunks Heap::new makes of a region of l bytes.
InitialCapacity(l) ==
    LET m == Heap_new(<<>>, l).mem IN SumSizes(m, List(m, l).chunks, 1)

\* The program is running and every access so far was inside the region.
Observable == pc = "run" /\ ~ub

\* C1: in every reachable state, every chunk of the list except the first
\* has prev_size equal to the size of the chunk immediately before it.
C1_PrevSizeLinks ==
    Observable =>
        LET w == List(mem, len).chunks IN
        \A i \in 2..Len(w) : prev_size(mem, w[i]) = size(mem, w[i - 1])

\* C2: in every reachable state, walking next() from first_chunk ends at a
\* chunk with LAST set, and no chunk before it has LAST set.
C2_ExactlyOneLast ==
    Observable =>
        LET r == List(mem, len) IN
        /\ r.end = "last"
        /\ Cardinality({c \in Seq2Set(r.chunks) : is_last(mem, c)}) = 1
        /\ is_last(mem, r.chunks[Len(r.chunks)])

\* C3: in every reachable state, the sum of size() over the chunks of the
\* list equals the sum right after Heap::new.
C3_SumOfSizes ==
    Observable =>
        SumSizes(mem, List(mem, len).chunks, 1) = InitialCapacity(len)

\* C4: in every reachable state, every chunk of the list has
\* min_size <= size() <= max_size, and prev_size() = 0 exactly for the first.
C4_SizeBounds ==
    Observable =>
        \A c \in Chunks :
            /\ min_size <= size(mem, c) /\ size(mem, c) <= max_size
            /\ (prev_size(mem, c) = 0) <=> (c = first_chunk)

\* A well-formed list: the walk ends at a LAST chunk, every chunk lies in the
\* region with a size in range, the prev_size links hold, and cc counts it.
ValidList(m, l, cc) ==
    LET r == List(m, l)
        w == r.chunks
    IN  /\ r.end = "last"
        /\ cc = Len(w)
        /\ prev_size(m, w[1]) = 0
        /\ \A i \in 1..Len(w) :
              /\ min_size <= size(m, w[i]) /\ size(m, w[i]) <= max_size
              /\ InRegion(l, w[i], size(m, w[i]) * size_of_usize)
              /\ i > 1 => prev_size(m, w[i]) = size(m, w[i - 1])

\* C5: after any sequence of split and absorb_next, chunk_count equals the
\* number of chunks met walking next() from first_chunk up to the LAST chunk.
C5_ChunkCount ==
    pc = "run" =>
        LET r == List(mem, len) IN
        r.end = "last" /\ chunk_count = Len(r.chunks)

\* An absorb_next has merged a chunk, two splits before it are still in effect.
C5_Witness ==
    /\ pc = "run"
    /\ op.name = "absorb_next"
    /\ chunk_count = op.pre.chunk_count - 1
    /\ chunk_count = 3

\* The last operation was an absorb_next(c0) that merged a free c0 with an
\* allocated successor.
MergedFreeWithAllocated ==
    /\ op.name = "absorb_next" /\ op.outcome = "ok"
    /\ next(op.pre.mem, op.c0) # None
    /\ ~is_allocated(op.pre.mem, op.c0)
    /\ is_allocated(op.pre.mem, next(op.pre.mem, op.c0))
    /\ size(op.pre.mem, op.c0) + size(op.pre.mem, next(op.pre.mem, op.c0)) <= max_size

\* Number of payload bytes of chunk c: (c.size - H) * A.
PayloadLen(m, c) == (size(m, c) - hdr_csize) * alignment

\* The n bytes at a1 in memory m1 are, in the same order, the n bytes at a2
\* in memory m2.  A byte that is not stored is 0, so the stored bytes decide.
SameBytes(m1, a1, m2, a2, n) ==
    /\ \A a \in DOMAIN m1 : (a1 <= a /\ a < a1 + n) => Rd(m2, a - a1 + a2) = m1[a]
    /\ \A a \in DOMAIN m2 : (a2 <= a /\ a < a2 + n) => Rd(m1, a - a2 + a1) = m2[a]

\* C6: after absorb_next(c0) has merged a free c0 with an allocated c1 whose
\* payload held the bytes P, the first len(P) bytes at to_ptr(c0) are P.
C6_PayloadPreserved ==
    MergedFreeWithAllocated =>
        LET c1 == next(op.pre.mem, op.c0) IN
        SameBytes(mem, to_ptr(op.c0), op.pre.mem, to_ptr(c1), PayloadLen(op.pre.mem, c1))

\* Such a merge has happened with every access inside the region, the payload
\* began with three different non-zero bytes, and the payload's old and new
\* places overlap.
C6_Witness ==
    /\ MergedFreeWithAllocated
    /\ Observable
    /\ LET c1 == next(op.pre.mem, op.c0) IN
       /\ Rd(op.pre.mem, to_ptr(c1)) = 32
       /\ Rd(op.pre.mem, to_ptr(c1) + 1) = 25
       /\ Rd(op.pre.mem, to_ptr(c1) + 2) = 255
       /\ to_ptr(op.c0) + PayloadLen(op.pre.mem, c1) > to_ptr(c1)

\* C7: absorb_next(c0) merging a free c0 with an allocated c1 of a well-formed
\* list leaves every byte outside the merged chunk unchanged, except the
\* prev_size of the merged chunk's successor, whose LAST flag stays as it was.
C7_AbsorbFrame ==
    (/\ MergedFreeWithAllocated
     /\ ValidList(op.pre.mem, len, op.pre.chunk_count)
     /\ Observable) =>
        LET m0 == op.pre.mem
            c0 == op.c0
            c1 == next(m0, c0)
            end == c1 + size(m0, c1) * size_of_usize
            succ == next(m0, c1)
        IN  /\ \A a \in DOMAIN mem \cup DOMAIN m0 :
                  ((a < c0 \/ a >= end) /\ ~(succ # None /\ a \in {succ, succ + 1}))
                  => Rd(mem, a) = Rd(m0, a)
            /\ succ # None => is_last(mem, succ) = is_last(m0, succ)

\* C8: absorb_next(c) right after a split(c, s) that returned Some, on a
\* well-formed list, gives c its size, LAST and ALLOCATED flags back, gives
\* c's original successor its prev_size back, and chunk_count its value.
C8_SplitThenAbsorb ==
    (/\ op.name = "absorb_next"
     /\ op.pre2.valid
     /\ ValidList(op.pre2.mem, len, op.pre2.chunk_count)) =>
        LET m0 == op.pre2.mem
            c == op.c0
        IN  /\ op.outcome = "ok"
            /\ size(mem, c) = size(m0, c)
            /\ is_last(mem, c) = is_last(m0, c)
            /\ is_allocated(mem, c) = is_allocated(m0, c)
            /\ next(m0, c) # None =>
                  prev_size(mem, next(m0, c)) = prev_size(m0, next(m0, c))
            /\ chunk_count = op.pre2.chunk_count

\* Such a split and absorb_next have happened on an allocated chunk that had
\* a successor.
C8_Witness ==
    /\ op.name = "absorb_next"
    /\ op.pre2.valid
    /\ ValidList(op.pre2.mem, len, op.pre2.chunk_count)
    /\ is_allocated(op.pre2.mem, op.c0)
    /\ next(op.pre2.mem, op.c0) # None
    /\ pc = "run"

\* C9: split(c0, s) with s < min_size or c0.size - s < min_size, s larger
\* than c0.size included, returns None and changes neither a byte of the
\* region nor chunk_count.
C9_SplitRejects ==
    (/\ op.name = "split"
     /\ ValidList(op.pre.mem, len, op.pre.chunk_count)
     /\ (op.arg < min_size \/ size(op.pre.mem, op.c0) - op.arg < min_size)) =>
        /\ op.outcome = "ok" /\ op.ret = None
        /\ mem = op.pre.mem
        /\ chunk_count = op.pre.chunk_count

\* C10: absorb_next(c0) on a non-last c0 whose successor c1 is not allocated
\* together with c0, with c0.size + c1.size > max_size, changes neither a
\* byte of the region nor chunk_count.
C10_AbsorbOverflowNoOp ==
    (/\ op.name = "absorb_next"
     /\ next(op.pre.mem, op.c0) # None
     /\ InRegion(len, next(op.pre.mem, op.c0), size_of_Chunk)
     /\ ~(is_allocated(op.pre.mem, op.c0) /\ is_allocated(op.pre.mem, next(op.pre.mem, op.c0)))
     /\ size(op.pre.mem, op.c0) + size(op.pre.mem, next(op.pre.mem, op.c0)) > max_size) =>
        /\ op.outcome = "ok" /\ pc = "run"
        /\ mem = op.pre.mem
        /\ chunk_count = op.pre.chunk_count

\* Such an absorb_next has happened, on an allocated c0 whose payload is not
\* all zeroes.
C10_Witness ==
    /\ op.name = "absorb_next"
    /\ next(op.pre.mem, op.c0) # None
    /\ size(op.pre.mem, op.c0) + size(op.pre.mem, next(op.pre.mem, op.c0)) > max_size
    /\ is_allocated(op.pre.mem, op.c0)
    /\ Rd(op.pre.mem, to_ptr(op.c0)) # 0

\* C11: absorb_next(c0) on a non-last c0 that is allocated and whose successor
\* c1 is allocated panics, whatever the two sizes, and has changed neither a
\* byte of the region nor chunk_count when it does.
C11_BothAllocatedPanics ==
    (/\ op.name = "absorb_next"
     /\ next(op.pre.mem, op.c0) # None
     /\ InRegion(len, next(op.pre.mem, op.c0), size_of_Chunk)
     /\ is_allocated(op.pre.mem, op.c0)
     /\ is_allocated(op.pre.mem, next(op.pre.mem, op.c0))) =>
        /\ op.outcome = "panic" /\ pc = "panicked"
        /\ mem = op.pre.mem
        /\ chunk_count = op.pre.chunk_count

\* Such an absorb_next has panicked on two allocated chunks whose sizes add
\* up to more than max_size.
C11_Witness ==
    /\ op.name = "absorb_next" /\ pc = "panicked"
    /\ next(op.pre.mem, op.c0) # None
    /\ is_allocated(op.pre.mem, op.c0)
    /\ is_allocated(op.pre.mem, next(op.pre.mem, op.c0))
    /\ size(op.pre.mem, op.c0) + size(op.pre.mem, next(op.pre.mem, op.c0)) > max_size

\* C12: on a well-formed list, find(size) returns the first chunk in address
\* order that is free and has size() >= size, None exactly when there is no
\* such chunk, and changes neither a byte of the region nor chunk_count.
C12_FindFirstFit ==
    (/\ op.name = "find"
     /\ ValidList(op.pre.mem, len, op.pre.chunk_count)) =>
        LET m0 == op.pre.mem
            w == List(m0, len).chunks
            fits == {i \in 1..Len(w) : ~is_allocated(m0, w[i]) /\ size(m0, w[i]) >= op.arg}
        IN  /\ op.outcome = "ok" /\ pc = "run"
            /\ (fits = {}) <=> (op.ret = None)
            /\ fits # {} => /\ op.ret \in {w[i] : i \in fits}
                            /\ \A i \in fits : w[i] >= op.ret
            /\ mem = m0
            /\ chunk_count = op.pre.chunk_count

\* find has returned a chunk after passing over an allocated chunk that was
\* large enough and a free chunk that was too small.
C12_Witness ==
    /\ op.name = "find" /\ op.ret # None
    /\ ValidList(op.pre.mem, len, op.pre.chunk_count)
    /\ \E c \in Chunks : c < op.ret /\ is_allocated(mem, c) /\ size(mem, c) >= op.arg
    /\ \E c \in Chunks : c < op.ret /\ ~is_allocated(mem, c) /\ size(mem, c) < op.arg

\* Number of whole alignment units in a region of l bytes.
Units(l) == l \div alignment

\* C13: for a region of min_size <= N <= max_size units, whatever it held,
\* Heap::new gives chunk_count 1 and one chunk at the start of the region with
\* size N, prev_size 0, not allocated, and LAST.
C13_NewSingleChunk ==
    (/\ op.name = "new"
     /\ min_size <= Units(len) /\ Units(len) <= max_size) =>
        /\ pc = "run"
        /\ chunk_count = 1
        /\ size(mem, first_chunk) = Units(len)
        /\ prev_size(mem, first_chunk) = 0
        /\ ~is_allocated(mem, first_chunk)
        /\ is_last(mem, first_chunk)

\* Heap::new has made one chunk of max_size units of a region whose first four
\* bytes were all ones (a header with all 15 bits of both sizes and both flags).
C13_Witness ==
    /\ op.name = "new" /\ pc = "run"
    /\ Units(len) = max_size
    /\ is_allocated(op.pre.mem, first_chunk)
    /\ is_last(op.pre.mem, first_chunk)
    /\ size(op.pre.mem, first_chunk) = max_size
    /\ chunk_count = 1

\* The chunks Heap::new made are, in address order and one after the other,
\* of size min(max_size, N less the sizes before), linked by prev_size, free,
\* and only the final one is LAST.
NewChunksAsSliced ==
    LET r == List(mem, len)
        w == r.chunks
        before(k) == SumSizes(mem, SubSeq(w, 1, k - 1), 1)
    IN  /\ r.end = "last"
        /\ chunk_count = Len(w)
        /\ \A k \in 1..Len(w) :
              /\ w[k] = before(k) * size_of_usize
              /\ size(mem, w[k]) = Min(max_size, Units(len) - before(k))
              /\ prev_size(mem, w[k]) = (IF k = 1 THEN 0 ELSE size(mem, w[k - 1]))
              /\ ~is_allocated(mem, w[k])
              /\ is_last(mem, w[k]) <=> (k = Len(w))

\* C14, as stated: for a region of N >= min_size units, Heap::new makes
\* ceil(N / max_size) chunks, sliced as above.
C14_NewCeilChunks ==
    (op.name = "new" /\ Units(len) >= min_size) =>
        /\ pc = "run"
        /\ chunk_count = (Units(len) + max_size - 1) \div max_size
        /\ NewChunksAsSliced

\* C14, amended: for a region of N >= min_size units, Heap::new makes
\* N / max_size chunks, and one more when N mod max_size >= min_size (a
\* remainder of fewer than min_size units is left out of the list), sliced as
\* above.
C14_NewChunks ==
    (op.name = "new" /\ Units(len) >= min_size) =>
        /\ pc = "run"
        /\ chunk_count = (Units(len) \div max_size)
                           + (IF Units(len) % max_size >= min_size THEN 1 ELSE 0)
        /\ NewChunksAsSliced

\* Heap::new has made two chunks of a region of 2 * max_size + 1 units that
\* held ones where the headers go: one unit is left out.
C14_Witness ==
    /\ op.name = "new" /\ pc = "run"
    /\ Units(len) = 2 * max_size + 1
    /\ chunk_count = 2
    /\ Rd(op.pre.mem, max_size * size_of_usize) = 255

\* C15: Heap::new panics exactly when the region has fewer than min_size
\* alignment units.
C15_NewPanicsIffTooSmall ==
    op.name = "new" => ((pc = "panicked") <=> (Units(len) < min_size))

\* Heap::new has panicked on a region of one unit and some bytes.
C15_Witness ==
    /\ op.name = "new" /\ pc = "panicked"
    /\ Units(len) = min_size - 1
    /\ len > size_of_usize

\* C16: set_size(n) panics exactly when n < min_size or n > max_size, and
\* set_prev_size(n) exactly when n # 0 and (n < min_size or n > max_size);
\* after an accepted n the getter returns n; a refused call leaves the header
\* as it was.
C16_SetterRanges ==
    /\ op.name = "set_size" =>
          /\ (op.outcome = "panic") <=> (op.arg < min_size \/ op.arg > max_size)
          /\ op.outcome = "ok" => size(mem, op.c0) = op.arg
          /\ op.outcome = "panic" => mem = op.pre.mem
    /\ op.name = "set_prev_size" =>
          /\ (op.outcome = "panic") <=>
                (op.arg # 0 /\ (op.arg < min_size \/ op.arg > max_size))
          /\ op.outcome = "ok" => prev_size(mem, op.c0) = op.arg
          /\ op.outcome = "panic" => mem = op.pre.mem

\* set_prev_size(0) has been accepted on a header that held the largest
\* prev_size and LAST.
C16_Witness ==
    /\ op.name = "set_prev_size" /\ op.arg = 0 /\ op.outcome = "ok"
    /\ prev_size(op.pre.mem, op.c0) = max_size
    /\ is_last(op.pre.mem, op.c0)

\* The last operation was one of the four header mutators and it returned.
MutatorReturned ==
    /\ op.name \in {"set_size", "set_prev_size", "set_is_allocated", "set_is_last"}
    /\ op.outcome = "ok"

\* C17: each of the four header mutators keeps the three fields that are not
\* its own.
C17_MutatorFrame ==
    MutatorReturned =>
        LET m0 == op.pre.mem
            c == op.c0
        IN  /\ op.name # "set_size" => size(mem, c) = size(m0, c)
            /\ op.name # "set_prev_size" => prev_size(mem, c) = prev_size(m0, c)
            /\ op.name # "set_is_allocated" => is_allocated(mem, c) = is_allocated(m0, c)
            /\ op.name # "set_is_last" => is_last(mem, c) = is_last(m0, c)

\* set_is_last(false) has cleared LAST on a header with the largest prev_size,
\* a size and ALLOCATED.
C17_Witness ==
    /\ MutatorReturned /\ op.name = "set_is_last" /\ op.arg = 0
    /\ is_last(op.pre.mem, op.c0) /\ ~is_last(mem, op.c0)
    /\ prev_size(op.pre.mem, op.c0) = max_size
    /\ is_allocated(op.pre.mem, op.c0) /\ size(op.pre.mem, op.c0) > 0

\* The last operation was a split(c0, s) with s >= min_size and
\* c0.size - s >= min_size.
SplitAccepted ==
    /\ op.name = "split"
    /\ op.arg >= min_size
    /\ size(op.pre.mem, op.c0) - op.arg >= min_size

\* C18: such a split returns the chunk c1 that lies s units after c0, with
\* c1.size = old c0.size - s, c1.prev_size = s, c1 free, c1.is_last = old
\* c0.is_last; c0 has size s, is not LAST, and keeps its ALLOCATED flag; the
\* former successor of c0 has prev_size = c1.size; chunk_count is one more.
C18_SplitPost ==
    (SplitAccepted /\ ValidList(op.pre.mem, len, op.pre.chunk_count)) =>
        LET m0 == op.pre.mem
            c0 == op.c0
            c1 == c0 + op.arg * size_of_usize
            c2 == next(m0, c0)
        IN  /\ op.outcome = "ok" /\ pc = "run"
            /\ op.ret = c1
            /\ size(mem, c1) = size(m0, c0) - op.arg
            /\ prev_size(mem, c1) = op.arg
            /\ ~is_allocated(mem, c1)
            /\ is_last(mem, c1) = is_last(m0, c0)
            /\ size(mem, c0) = op.arg
            /\ ~is_last(mem, c0)
            /\ is_allocated(mem, c0) = is_allocated(m0, c0)
            /\ c2 # None => prev_size(mem, c2) = size(mem, c1)
            /\ chunk_count = op.pre.chunk_count + 1

\* Such a split has been made of an allocated chunk that had a successor, and
\* the place of the new header held a payload byte.
C18_Witness ==
    /\ SplitAccepted /\ ValidList(op.pre.mem, len, op.pre.chunk_count)
    /\ pc = "run"
    /\ is_allocated(op.pre.mem, op.c0)
    /\ next(op.pre.mem, op.c0) # None
    /\ \E j \in 0..(size_of_Chunk - 1) :
          Rd(op.pre.mem, op.c0 + op.arg * size_of_usize + j) # 0

\* The last operation was an absorb_next(c0) on a non-last c0 whose successor
\* is not allocated together with c0, with sizes that add up to max_size at
\* most.
MergeAccepted ==
    /\ op.name = "absorb_next"
    /\ next(op.pre.mem, op.c0) # None
    /\ ~both_allocated(op.pre.mem, op.c0, next(op.pre.mem, op.c0))
    /\ size(op.pre.mem, op.c0) + size(op.pre.mem, next(op.pre.mem, op.c0)) <= max_size

\* C19: after such an absorb_next on a well-formed list, c0.size is the old
\* c0.size + c1.size, c0.is_last the old c1.is_last, c0.is_allocated the old
\* c0.is_allocated or c1.is_allocated, c0.prev_size as before, the chunk that
\* followed c1 has prev_size = c0.size, and chunk_count is one less.
C19_AbsorbPost ==
    (/\ MergeAccepted
     /\ ValidList(op.pre.mem, len, op.pre.chunk_count)
     /\ Observable) =>
        LET m0 == op.pre.mem
            c0 == op.c0
            c1 == next(m0, c0)
            c2 == next(m0, c1)
        IN  /\ op.outcome = "ok"
            /\ size(mem, c0) = size(m0, c0) + size(m0, c1)
            /\ is_last(mem, c0) = is_last(m0, c1)
            /\ is_allocated(mem, c0) = (is_allocated(m0, c0) \/ is_allocated(m0, c1))
            /\ prev_size(mem, c0) = prev_size(m0, c0)
            /\ c2 # None => prev_size(mem, c2) = size(mem, c0)
            /\ chunk_count = op.pre.chunk_count - 1

\* C20: in every state reached from Heap::new by split, absorb_next,
\* set_is_allocated and payload writes, find(size) returns, having examined
\* chunk_count chunks at most.
C20_FindTerminates ==
    op.name = "find" =>
        /\ op.outcome = "ok" /\ pc = "run"
        /\ op.val <= chunk_count

\* C21: absorb_next(c0) merging a free c0 with an allocated c1 of a
\* well-formed list reads and writes no byte outside the region: the source
\* range and the destination range of its copy both lie inside it.  (The
\* record's oob says that one of the two ranges leaves the len bytes of the
\* region, of which the N * A bytes of the claim are a part.)
C21_AbsorbInsideRegion ==
    (/\ MergedFreeWithAllocated
     /\ ValidList(op.pre.mem, len, op.pre.chunk_count)) =>
        /\ ~op.oob
        /\ pc # "undefined"

====
